---- MODULE Spec2Model ----
(***************************************************************************)
(* A model of petgraph's VF2 graph-isomorphism check                       *)
(* (src/src/isomorphism.rs): the matching state Vf2State, its push / pop   *)
(* and candidate scans, and the recursive driver try_match unfolded into   *)
(* an explicit stack of frames.                                            *)
(***************************************************************************)
EXTENDS Integers, FiniteSets, Sequences

VARIABLES
    directed,   \* the edge type Ty of both graphs (one type parameter)
    g0,         \* first argument of the running call
    g1,         \* second argument of the running call
    st,         \* the array [Vf2State; 2]; empty before it is constructed
    stack,      \* the try_match frames that reached the candidate loop; beside
                \* its locals (nx, mx, open_list, first) a frame records the
                \* states before its latest commit (saved), the g0 candidates
                \* it has tested (tried) and the ones it has undone (undone)
    pc,         \* position of the running call
    ret,        \* Option<bool> handed back by the try_match that just returned
    result,     \* Option<bool>: the boolean is_isomorphic returned, once it has
    round,      \* 1: the call on (g0, g1); 2: the call with the arguments exchanged
    prev,       \* what the first call returned (kept for the second)
    calls,      \* number of try_match invocations of the running call
    pushes,     \* number of committed pairs of the running call
    why         \* how the last try_match returned

vars == <<directed, g0, g1, st, stack, pc, ret, result, round, prev, calls, pushes, why>>

\* ---------------------------------------------------------------- bounds

MaxNodesDirected == 3
MaxNodesUndirected == 4
MaxEdges == 3

\* ----------------------------------------------------- Option and sentinel

\* NodeIndex::end(): the "no mapping" sentinel, outside every node range.
End == -1

None == << >>
Some(v) == <<v>>
Unwrap(o) == o[1]

Min(S) == CHOOSE x \in S : \A y \in S : x <= y

\* ------------------------------------------- the graph collaborator (Graph)

Nodes(g) == 0 .. (g.n - 1)

\* The bit-matrix test. An undirected edge is stored once and answers both ways.
IsAdjacent(g, a, b) ==
    \/ <<a, b>> \in g.e
    \/ (~directed /\ <<b, a>> \in g.e)

\* g.neighbors(a): outgoing neighbours (all neighbours when undirected).
Neighbors(g, a) == {b \in Nodes(g) : IsAdjacent(g, a, b)}

\* g.neighbors_directed(a, Incoming)
NeighborsIncoming(g, a) == {b \in Nodes(g) : IsAdjacent(g, b, a)}

NodeCount(g) == g.n
EdgeCount(g) == Cardinality(g.e)

\* ------------------------------------------------------------- Vf2State

\* Vf2State::new
NewState(g) ==
    [ mapping    |-> [i \in Nodes(g) |-> End],
      out        |-> [i \in Nodes(g) |-> 0],
      ins        |-> IF directed THEN [i \in Nodes(g) |-> 0] ELSE << >>,
      out_size   |-> 0,
      ins_size   |-> 0,
      generation |-> 0 ]

\* Vf2State::is_complete
IsComplete(s) == s.generation = Cardinality(DOMAIN s.mapping)

\* Faulty variant of push_mapping: records the node itself instead of its counterpart.
PushMapping_StoresFrom(s, from, to, g) ==
    LET gen == s.generation + 1 IN
    [ mapping    |-> [s.mapping EXCEPT ![from] = from],
      out        |-> [i \in DOMAIN s.out |->
                        IF i \in Neighbors(g, from) /\ s.out[i] = 0
                        THEN gen ELSE s.out[i]],
      ins        |-> IF directed
                     THEN [i \in DOMAIN s.ins |->
                             IF i \in NeighborsIncoming(g, from) /\ s.ins[i] = 0
                             THEN gen ELSE s.ins[i]]
                     ELSE s.ins,
      out_size   |-> s.out_size + Cardinality(Neighbors(g, from)),
      ins_size   |-> IF directed THEN s.ins_size + 1 ELSE s.ins_size,
      generation |-> gen ]

\* Faulty variant of push_mapping: a neighbour's stamp is overwritten even when
\* an earlier commit had already set it.
PushMapping_OverwritesStamp(s, from, to, g) ==
    LET gen == s.generation + 1 IN
    [ mapping    |-> [s.mapping EXCEPT ![from] = to],
      out        |-> [i \in DOMAIN s.out |->
                        IF i \in Neighbors(g, from) THEN gen ELSE s.out[i]],
      ins        |-> IF directed
                     THEN [i \in DOMAIN s.ins |->
                             IF i \in NeighborsIncoming(g, from) THEN gen ELSE s.ins[i]]
                     ELSE s.ins,
      out_size   |-> s.out_size + Cardinality(Neighbors(g, from)),
      ins_size   |-> IF directed THEN s.ins_size + 1 ELSE s.ins_size,
      generation |-> gen ]

\* Vf2State::push_mapping
PushMapping(s, from, to, g) ==
    LET gen == s.generation + 1 IN
    [ mapping    |-> [s.mapping EXCEPT ![from] = to],
      out        |-> [i \in DOMAIN s.out |->
                        IF i \in Neighbors(g, from) /\ s.out[i] = 0
                        THEN gen ELSE s.out[i]],
      ins        |-> IF directed
                     THEN [i \in DOMAIN s.ins |->
                             IF i \in NeighborsIncoming(g, from) /\ s.ins[i] = 0
                             THEN gen ELSE s.ins[i]]
                     ELSE s.ins,
      out_size   |-> s.out_size + Cardinality(Neighbors(g, from)),
      ins_size   |-> IF directed THEN s.ins_size + 1 ELSE s.ins_size,
      generation |-> gen ]

\* Faulty variant of pop_mapping: clears every marked neighbour, whatever its stamp.
PopMapping_ClearsAnyStamp(s, from, g) ==
    LET gen == s.generation IN
    [ mapping    |-> [s.mapping EXCEPT ![from] = End],
      out        |-> [i \in DOMAIN s.out |->
                        IF i \in Neighbors(g, from) THEN 0 ELSE s.out[i]],
      ins        |-> IF directed
                     THEN [i \in DOMAIN s.ins |->
                             IF i \in NeighborsIncoming(g, from) THEN 0 ELSE s.ins[i]]
                     ELSE s.ins,
      out_size   |-> s.out_size - Cardinality(Neighbors(g, from)),
      ins_size   |-> IF directed THEN s.ins_size - 1 ELSE s.ins_size,
      generation |-> gen - 1 ]

\* Faulty variant of pop_mapping: generation is not decremented.
PopMapping_KeepsGeneration(s, from, g) ==
    LET gen == s.generation IN
    [ mapping    |-> [s.mapping EXCEPT ![from] = End],
      out        |-> [i \in DOMAIN s.out |->
                        IF i \in Neighbors(g, from) /\ s.out[i] = gen
                        THEN 0 ELSE s.out[i]],
      ins        |-> IF directed
                     THEN [i \in DOMAIN s.ins |->
                             IF i \in NeighborsIncoming(g, from) /\ s.ins[i] = gen
                             THEN 0 ELSE s.ins[i]]
                     ELSE s.ins,
      out_size   |-> s.out_size - Cardinality(Neighbors(g, from)),
      ins_size   |-> IF directed THEN s.ins_size - 1 ELSE s.ins_size,
      generation |-> gen ]

\* Vf2State::pop_mapping
PopMapping(s, from, g) ==
    LET gen == s.generation IN
    [ mapping    |-> [s.mapping EXCEPT ![from] = End],
      out        |-> [i \in DOMAIN s.out |->
                        IF i \in Neighbors(g, from) /\ s.out[i] = gen
                        THEN 0 ELSE s.out[i]],
      ins        |-> IF directed
                     THEN [i \in DOMAIN s.ins |->
                             IF i \in NeighborsIncoming(g, from) /\ s.ins[i] = gen
                             THEN 0 ELSE s.ins[i]]
                     ELSE s.ins,
      out_size   |-> s.out_size - Cardinality(Neighbors(g, from)),
      ins_size   |-> IF directed THEN s.ins_size - 1 ELSE s.ins_size,
      generation |-> gen - 1 ]

\* Faulty variant of the scan: a marked node is a hit even when it is mapped.
FirstOffset_IgnoresMapping(s, from_index, marks) ==
    LET len  == Cardinality(DOMAIN s.mapping)
        hits == {k \in 0 .. (len - 1 - from_index) : marks[from_index + k] > 0}
    IN  IF hits = {} THEN None ELSE Some(Min(hits))

\* The scans return the offset of the hit within the slice [from_index..].
FirstOffset(s, from_index, marks) ==
    LET len  == Cardinality(DOMAIN s.mapping)
        hits == {k \in 0 .. (len - 1 - from_index) :
                    marks[from_index + k] > 0 /\ s.mapping[from_index + k] = End}
    IN  IF hits = {} THEN None ELSE Some(Min(hits))

\* Vf2State::next_out_index
NextOutIndex(s, from_index) == FirstOffset(s, from_index, s.out)

\* Vf2State::next_in_index
NextInIndex(s, from_index) ==
    IF ~directed THEN None ELSE FirstOffset(s, from_index, s.ins)

\* Vf2State::next_rest_index
NextRestIndex(s, from_index) ==
    LET len  == Cardinality(DOMAIN s.mapping)
        hits == {k \in 0 .. (len - 1 - from_index) : s.mapping[from_index + k] = End}
    IN  IF hits = {} THEN None ELSE Some(Min(hits))

\* ------------------------------------------------------------ try_match

\* let g = [g0, g1]
G == [j \in {0, 1} |-> IF j = 0 THEN g0 ELSE g1]

\* Faulty variant of the selection: no fallback to the list of all unmapped nodes.
SelectLists_NoOtherList(s) ==
    LET to1    == NextOutIndex(s[1], 0)
        from1  == IF to1 # None THEN NextOutIndex(s[0], 0) ELSE None
        tryIn  == to1 = None \/ from1 = None
        to2    == IF tryIn THEN NextInIndex(s[1], 0) ELSE to1
        from2  == IF tryIn /\ to2 # None THEN NextInIndex(s[0], 0) ELSE from1
        list2  == IF tryIn /\ to2 # None THEN "In" ELSE "Out"
    IN  [from_index |-> from2, to_index |-> to2, open_list |-> list2]

\* Faulty variant of the selection: the in list is never consulted.
SelectLists_SkipsInList(s) ==
    LET to1    == NextOutIndex(s[1], 0)
        from1  == IF to1 # None THEN NextOutIndex(s[0], 0) ELSE None
        tryOth == to1 = None \/ from1 = None
        to3    == IF tryOth THEN NextRestIndex(s[1], 0) ELSE to1
        from3  == IF tryOth /\ to3 # None THEN NextRestIndex(s[0], 0) ELSE from1
        list3  == IF tryOth /\ to3 # None THEN "Other" ELSE "Out"
    IN  [from_index |-> from3, to_index |-> to3, open_list |-> list3]

\* Candidate-list selection at the head of try_match: the out list, then the
\* in list, then the list of all unmapped nodes.
SelectLists(s) ==
    LET to1    == NextOutIndex(s[1], 0)
        from1  == IF to1 # None THEN NextOutIndex(s[0], 0) ELSE None
        tryIn  == to1 = None \/ from1 = None
        to2    == IF tryIn THEN NextInIndex(s[1], 0) ELSE to1
        from2  == IF tryIn /\ to2 # None THEN NextInIndex(s[0], 0) ELSE from1
        list2  == IF tryIn /\ to2 # None THEN "In" ELSE "Out"
        tryOth == to2 = None \/ from2 = None
        to3    == IF tryOth THEN NextRestIndex(s[1], 0) ELSE to2
        from3  == IF tryOth /\ to3 # None THEN NextRestIndex(s[0], 0) ELSE from2
        list3  == IF tryOth /\ to3 # None THEN "Other" ELSE list2
    IN  [from_index |-> from3, to_index |-> to3, open_list |-> list3]

\* Faulty variant of the scan: every scan restarts at index 0.
NextCandidate_FromZero(s, open_list, start) ==
    CASE open_list = "Out"   -> NextOutIndex(s[0], 0)
      [] open_list = "In"    -> NextInIndex(s[0], 0)
      [] open_list = "Other" -> NextRestIndex(s[0], 0)

\* Faulty variant of the scan: it starts one index too far.
NextCandidate_SkipsOne(s, open_list, start) ==
    LET c == CASE open_list = "Out"   -> NextOutIndex(s[0], start + 1)
               [] open_list = "In"    -> NextInIndex(s[0], start + 1)
               [] open_list = "Other" -> NextRestIndex(s[0], start + 1)
    IN  IF c = None THEN None ELSE Some(Unwrap(c) + start + 1)

\* The scan of the frame's list from `start`, in the g0 state.
NextCandidate(s, open_list, start) ==
    LET c == CASE open_list = "Out"   -> NextOutIndex(s[0], start)
               [] open_list = "In"    -> NextInIndex(s[0], start)
               [] open_list = "Other" -> NextRestIndex(s[0], start)
    IN  IF c = None THEN None ELSE Some(Unwrap(c) + start)

\* Faulty variant of R_succ: the adjacency test has its two nodes exchanged.
SuccMapped_Reversed(s, nodes, j) ==
    \A n_neigh \in Neighbors(G[j], nodes[j]) :
        LET m_neigh == s[j].mapping[n_neigh] IN
        m_neigh = End \/ IsAdjacent(G[1 - j], m_neigh, nodes[1 - j])

\* R_succ for side j: every mapped outgoing neighbour of nodes[j] has its
\* counterpart adjacent from nodes[1-j] in the other graph.
SuccMapped(s, nodes, j) ==
    \A n_neigh \in Neighbors(G[j], nodes[j]) :
        LET m_neigh == s[j].mapping[n_neigh] IN
        m_neigh = End \/ IsAdjacent(G[1 - j], nodes[1 - j], m_neigh)

\* Faulty variant of R_pred: the adjacency test has its two nodes exchanged.
PredMapped_Reversed(s, nodes, j) ==
    \A n_neigh \in NeighborsIncoming(G[j], nodes[j]) :
        LET m_neigh == s[j].mapping[n_neigh] IN
        m_neigh = End \/ IsAdjacent(G[1 - j], nodes[1 - j], m_neigh)

\* R_pred for side j, over incoming neighbours.
PredMapped(s, nodes, j) ==
    \A n_neigh \in NeighborsIncoming(G[j], nodes[j]) :
        LET m_neigh == s[j].mapping[n_neigh] IN
        m_neigh = End \/ IsAdjacent(G[1 - j], m_neigh, nodes[1 - j])

\* Faulty variant of the feasibility test: the neighbour counts are not compared.
Feasible_NoCounts(s, nodes) ==
    /\ \A j \in {0, 1} : SuccMapped(s, nodes, j)
    /\ directed => \A j \in {0, 1} : PredMapped(s, nodes, j)

\* Faulty variant of the feasibility test: only the neighbours of nx are checked
\* against the other graph, never those of mx.
Feasible_OneWay(s, nodes) ==
    /\ SuccMapped(s, nodes, 0)
    /\ Cardinality(Neighbors(G[0], nodes[0])) <= Cardinality(Neighbors(G[1], nodes[1]))
    /\ directed =>
         /\ PredMapped(s, nodes, 0)
         /\ Cardinality(NeighborsIncoming(G[0], nodes[0]))
              <= Cardinality(NeighborsIncoming(G[1], nodes[1]))

\* The syntactic feasibility test of the pair nodes = [nx, mx].
Feasible(s, nodes) ==
    /\ \A j \in {0, 1} : SuccMapped(s, nodes, j)
    /\ Cardinality(Neighbors(G[0], nodes[0])) = Cardinality(Neighbors(G[1], nodes[1]))
    /\ directed =>
         /\ \A j \in {0, 1} : PredMapped(s, nodes, j)
         /\ Cardinality(NeighborsIncoming(G[0], nodes[0]))
              = Cardinality(NeighborsIncoming(G[1], nodes[1]))

\* "Check counts in Tin/Tout": each counter is compared with itself.
SizesAgree(s) ==
    \/ s[0].out_size = s[0].out_size
    \/ s[1].ins_size = s[1].ins_size

Top == stack[Len(stack)]
Pop(stk) == SubSeq(stk, 1, Len(stk) - 1)
SetTop(stk, f) == [stk EXCEPT ![Len(stk)] = f]

\* ------------------------------------------------------------- the inputs

PossibleEdges(n, d) ==
    IF d THEN (0 .. (n - 1)) \X (0 .. (n - 1))
         ELSE {e \in (0 .. (n - 1)) \X (0 .. (n - 1)) : e[1] < e[2]}

MaxNodes(d) == IF d THEN MaxNodesDirected ELSE MaxNodesUndirected

\* Directed graphs may carry self-loops; undirected ones are simple graphs.
Graphs(d) ==
    UNION { { [n |-> n, e |-> E] :
                E \in {S \in SUBSET PossibleEdges(n, d) : Cardinality(S) <= MaxEdges} } :
            n \in 0 .. MaxNodes(d) }

Init ==
    /\ directed \in BOOLEAN
    /\ g0 \in Graphs(directed)
    /\ g1 \in Graphs(directed)
    /\ st = << >>
    /\ stack = << >>
    /\ pc = "start"
    /\ ret = None
    /\ result = None
    /\ round = 1
    /\ prev = None
    /\ calls = 0
    /\ pushes = 0
    /\ why = "none"

\* ------------------------------------------------------------ the actions

\* Faulty variant of the entry check: only the node counts are compared.
Start_NodeCountOnly ==
    /\ pc = "start"
    /\ IF NodeCount(g0) # NodeCount(g1)
       THEN /\ result' = Some(FALSE)
            /\ pc' = "done"
            /\ st' = st
       ELSE /\ st' = [j \in {0, 1} |-> NewState(G[j])]
            /\ pc' = "try_match"
            /\ result' = result
    /\ UNCHANGED <<directed, g0, g1, stack, ret, round, prev, calls, pushes, why>>

\* is_isomorphic, up to the first call of try_match.
Start ==
    /\ pc = "start"
    /\ IF NodeCount(g0) # NodeCount(g1) \/ EdgeCount(g0) # EdgeCount(g1)
       THEN /\ result' = Some(FALSE)
            /\ pc' = "done"
            /\ st' = st
       ELSE /\ st' = [j \in {0, 1} |-> NewState(G[j])]
            /\ pc' = "try_match"
            /\ result' = result
    /\ UNCHANGED <<directed, g0, g1, stack, ret, round, prev, calls, pushes, why>>

\* Entry of try_match: the completeness test and the choice of the list.
TryMatchEntry ==
    /\ pc = "try_match"
    /\ calls' = calls + 1
    /\ IF IsComplete(st[0])
       THEN /\ ret' = Some(TRUE)
            /\ why' = "complete"
            /\ pc' = "return"
            /\ stack' = stack
       ELSE LET sel == SelectLists(st) IN
            IF sel.from_index # None /\ sel.to_index # None
            THEN /\ stack' = Append(stack,
                        [ nx        |-> Unwrap(sel.from_index),
                          mx        |-> Unwrap(sel.to_index),
                          open_list |-> sel.open_list,
                          first     |-> TRUE,
                          saved     |-> st,
                          tried     |-> << >>,
                          undone    |-> << >> ])
                 /\ pc' = "loop"
                 /\ UNCHANGED <<ret, why>>
            ELSE /\ ret' = None
                 /\ why' = "no_candidates"
                 /\ pc' = "return"
                 /\ stack' = stack
    /\ UNCHANGED <<directed, g0, g1, st, result, round, prev, pushes>>

\* Faulty variant of the loop head: the loop gives up after its first candidate.
LoopHead_FirstCandidateOnly ==
    /\ pc = "loop"
    /\ IF Top.first
       THEN /\ stack' = SetTop(stack, [Top EXCEPT !.first = FALSE])
            /\ pc' = "feasibility"
            /\ UNCHANGED <<ret, why>>
       ELSE /\ stack' = Pop(stack)
            /\ ret' = None
            /\ why' = "exhausted"
            /\ pc' = "return"
    /\ UNCHANGED <<directed, g0, g1, st, result, round, prev, calls, pushes>>

\* Head of the 'candidates loop: the next g0 candidate, or the break.
LoopHead ==
    /\ pc = "loop"
    /\ IF Top.first
       THEN /\ stack' = SetTop(stack, [Top EXCEPT !.first = FALSE])
            /\ pc' = "feasibility"
            /\ UNCHANGED <<ret, why>>
       ELSE LET cand0 == NextCandidate(st, Top.open_list, Top.nx + 1) IN
            IF cand0 = None
            THEN /\ stack' = Pop(stack)
                 /\ ret' = None
                 /\ why' = "exhausted"
                 /\ pc' = "return"
            ELSE /\ stack' = SetTop(stack, [Top EXCEPT !.nx = Unwrap(cand0)])
                 /\ pc' = "feasibility"
                 /\ UNCHANGED <<ret, why>>
    /\ UNCHANGED <<directed, g0, g1, st, result, round, prev, calls, pushes>>

\* The feasibility test of (nx, mx); a mismatch is `continue 'candidates`.
CheckFeasibility ==
    /\ pc = "feasibility"
    /\ pc' = IF Feasible(st, [j \in {0, 1} |-> IF j = 0 THEN Top.nx ELSE Top.mx])
             THEN "commit" ELSE "loop"
    /\ stack' = SetTop(stack, [Top EXCEPT !.tried = Append(@, Top.nx)])
    /\ UNCHANGED <<directed, g0, g1, st, ret, result, round, prev, calls, pushes, why>>

\* push_mapping on both states, the size check, and the recursive call.
Commit ==
    /\ pc = "commit"
    /\ LET nodes  == [j \in {0, 1} |-> IF j = 0 THEN Top.nx ELSE Top.mx]
           pushed == [j \in {0, 1} |-> PushMapping(st[j], nodes[j], nodes[1 - j], G[j])]
       IN  /\ st' = pushed
           /\ pc' = IF SizesAgree(pushed) THEN "try_match" ELSE "restore"
    /\ stack' = SetTop(stack, [Top EXCEPT !.saved = st])
    /\ pushes' = pushes + 1
    /\ UNCHANGED <<directed, g0, g1, ret, result, round, prev, calls, why>>

\* Faulty variant of the result match: a decided result is dropped like None, and
\* the frame goes on to undo the pair and try its next candidate.
ReturnToFrame_DropsResult ==
    /\ pc = "return"
    /\ stack # << >>
    /\ pc' = "restore"
    /\ ret' = None
    /\ UNCHANGED <<directed, g0, g1, st, stack, result, round, prev, calls, pushes, why>>

\* The recursive call came back to the frame on top: None falls through to
\* the restore, anything else is returned at once.
ReturnToFrame ==
    /\ pc = "return"
    /\ stack # << >>
    /\ IF ret = None
       THEN /\ pc' = "restore"
            /\ UNCHANGED <<stack, why>>
       ELSE /\ stack' = Pop(stack)
            /\ why' = "propagated"
            /\ pc' = "return"
    /\ UNCHANGED <<directed, g0, g1, st, ret, result, round, prev, calls, pushes>>

\* Faulty variant of the restore: only the g0 state is popped.
Restore_OnlyFirstState ==
    /\ pc = "restore"
    /\ st' = [st EXCEPT ![0] = PopMapping(st[0], Top.nx, G[0])]
    /\ pc' = "loop"
    /\ stack' = SetTop(stack, [Top EXCEPT !.undone = Append(@, Top.nx)])
    /\ UNCHANGED <<directed, g0, g1, ret, result, round, prev, calls, pushes, why>>

\* pop_mapping on both states, then back to the loop head.
Restore ==
    /\ pc = "restore"
    /\ LET nodes == [j \in {0, 1} |-> IF j = 0 THEN Top.nx ELSE Top.mx]
       IN  st' = [j \in {0, 1} |-> PopMapping(st[j], nodes[j], G[j])]
    /\ pc' = "loop"
    /\ stack' = SetTop(stack, [Top EXCEPT !.undone = Append(@, Top.nx)])
    /\ UNCHANGED <<directed, g0, g1, ret, result, round, prev, calls, pushes, why>>

\* The outermost try_match returned: unwrap_or(false).
Finish ==
    /\ pc = "return"
    /\ stack = << >>
    /\ result' = IF ret = None THEN Some(FALSE) ELSE ret
    /\ pc' = "done"
    /\ UNCHANGED <<directed, g0, g1, st, stack, ret, round, prev, calls, pushes, why>>

\* A second call of is_isomorphic, on the same two graphs in the other order.
CallSwapped ==
    /\ pc = "done"
    /\ round = 1
    /\ round' = 2
    /\ prev' = result
    /\ g0' = g1
    /\ g1' = g0
    /\ st' = << >>
    /\ stack' = << >>
    /\ pc' = "start"
    /\ ret' = None
    /\ result' = None
    /\ calls' = 0
    /\ pushes' = 0
    /\ why' = "none"
    /\ UNCHANGED directed

Next ==
    \/ Start
    \/ TryMatchEntry
    \/ LoopHead
    \/ CheckFeasibility
    \/ Commit
    \/ ReturnToFrame
    \/ Restore
    \/ Finish
    \/ CallSwapped

Spec == Init /\ [][Next]_vars

\* The call runs to its end: a sequential program always takes its next step.
FairSpec == Spec /\ WF_vars(Next)

\* =============================================================== claims

Done == pc = "done"

Bijections(n) ==
    {f \in [0 .. (n - 1) -> 0 .. (n - 1)] : \A a, b \in 0 .. (n - 1) : f[a] = f[b] => a = b}

\* An adjacency-preserving bijection from the nodes of a onto the nodes of b.
IsoExists(a, b) ==
    /\ a.n = b.n
    /\ \E f \in Bijections(a.n) :
         \A x, y \in Nodes(a) : IsAdjacent(a, x, y) <=> IsAdjacent(b, f[x], f[y])

\* C1: is_isomorphic(g0, g1) returns true if and only if some bijection of the
\* nodes of g0 onto the nodes of g1 maps the edges of g0 exactly onto those of g1.
C1_TrueIffBijection ==
    Done => (result = Some(TRUE) <=> IsoExists(g0, g1))

\* A search that backtracked and still answered true on two different graphs.
C1_Witness ==
    /\ Done
    /\ result = Some(TRUE)
    /\ g0 # g1
    /\ g0.n = 3
    /\ pushes > 3
    /\ IsoExists(g0, g1)

CountsDiffer == NodeCount(g0) # NodeCount(g1) \/ EdgeCount(g0) # EdgeCount(g1)

\* C2: when the node counts or the edge counts differ, the call answers false
\* with no matching state constructed, no try_match call and no push_mapping.
C2_CheapRejection ==
    CountsDiffer =>
        /\ st = << >>
        /\ calls = 0
        /\ pushes = 0
        /\ stack = << >>
        /\ pc \in {"start", "done"}
        /\ Done => result = Some(FALSE)

\* Equal node counts, different edge counts, answered.
C2_Witness ==
    /\ Done
    /\ NodeCount(g0) = NodeCount(g1)
    /\ NodeCount(g0) = 3
    /\ EdgeCount(g0) # EdgeCount(g1)
    /\ result = Some(FALSE)
    /\ st = << >>

\* relabel(g, pi): the edge pi(a)->pi(b) for each edge a->b of g. An undirected
\* edge is stored with its smaller end first.
Relabel(g, pi) ==
    [ n |-> g.n,
      e |-> { IF directed \/ pi[e[1]] < pi[e[2]]
              THEN <<pi[e[1]], pi[e[2]]>>
              ELSE <<pi[e[2]], pi[e[1]]>> : e \in g.e } ]

\* C3: is_isomorphic(g, relabel(g, pi)) returns true for every graph g and
\* every permutation pi of its node indices.
C3_RelabelingInvariance ==
    Done => \A pi \in Bijections(g0.n) : g1 = Relabel(g0, pi) => result = Some(TRUE)

\* A relabeling that moves every edge, answered true.
C3_Witness ==
    /\ Done
    /\ g0.e # {}
    /\ g0.e \cap g1.e = {}
    /\ \E pi \in Bijections(g0.n) : g1 = Relabel(g0, pi)
    /\ result = Some(TRUE)

\* C4: is_isomorphic(g0, g1) and is_isomorphic(g1, g0) return the same boolean.
C4_Symmetry ==
    (Done /\ round = 2) => result = prev

\* Both orders searched (not rejected on the counts) on two different graphs.
C4_Witness ==
    /\ Done
    /\ round = 2
    /\ g0 # g1
    /\ ~CountsDiffer
    /\ pushes > 0
    /\ result = prev
    /\ result = Some(FALSE)

\* C5: is_isomorphic(g, g) returns true, for the empty graph and for graphs
\* with isolated nodes or several components as well.
C5_Reflexivity ==
    (Done /\ g0 = g1) => result = Some(TRUE)

\* A graph with two components, one of them an isolated node, against itself.
C5_Witness ==
    /\ Done
    /\ g0 = g1
    /\ ~directed
    /\ g0 = [n |-> 4, e |-> {<<1, 2>>, <<2, 3>>}]
    /\ result = Some(TRUE)

OutDegree(g, v) == Cardinality(Neighbors(g, v))
InDegree(g, v) == Cardinality(NeighborsIncoming(g, v))

\* How many nodes of g have out-degree o and in-degree i (degree o = i when
\* undirected): the degree sequence as a multiset.
DegreeCount(g, o, i) ==
    Cardinality({v \in Nodes(g) : OutDegree(g, v) = o /\ InDegree(g, v) = i})

SameDegreeSequence(a, b) ==
    \A o, i \in 0 .. (a.n + b.n) : DegreeCount(a, o, i) = DegreeCount(b, o, i)

\* C6: equal node and edge counts but different degree sequences (multisets
\* of (out-degree, in-degree) pairs when directed): the answer is false.
C6_DegreeSequences ==
    (Done /\ ~CountsDiffer /\ ~SameDegreeSequence(g0, g1)) => result = Some(FALSE)

\* The 4-node path against the 4-node star.
C6_Witness ==
    /\ Done
    /\ ~directed
    /\ g0 = [n |-> 4, e |-> {<<0, 1>>, <<1, 2>>, <<2, 3>>}]
    /\ g1 = [n |-> 4, e |-> {<<0, 1>>, <<0, 2>>, <<0, 3>>}]
    /\ ~SameDegreeSequence(g0, g1)
    /\ calls > 0
    /\ result = Some(FALSE)

\* C7: a frame that has undone a pair finds both states equal, in every field
\* (mapping, out, ins, out_size, ins_size, generation), to what they were
\* just before that pair's push_mapping calls.
C7_StateRestoration ==
    (pc = "loop" /\ Top.undone # << >>) => st = Top.saved

\* Just after an undo whose pair had stamped a frontier marker below the root.
C7_Witness ==
    /\ pc = "loop"
    /\ Len(stack) >= 2
    /\ Top.undone # << >>
    /\ Top.nx = Top.undone[Len(Top.undone)]
    /\ st = Top.saved
    /\ \E j \in {0, 1} :
         PushMapping(st[j], IF j = 0 THEN Top.nx ELSE Top.mx,
                     IF j = 0 THEN Top.mx ELSE Top.nx, G[j]).out # st[j].out
    /\ \E i \in Nodes(g0) : st[0].out[i] > 0 /\ st[0].mapping[i] = End

StrictlyAscending(q) == \A i, k \in 1 .. Len(q) : i < k => q[i] < q[k]

\* The depth of a try_match call, the outermost one at depth 0, is the number
\* of frames below it, and equals the generation it is entered with.
DepthBounded ==
    /\ st # << >> => \A j \in {0, 1} : st[j].generation <= NodeCount(G[j])
    /\ pc = "try_match" => Len(stack) = st[0].generation
    /\ Len(stack) <= NodeCount(g0)
    /\ \A d \in 1 .. Len(stack) : StrictlyAscending(stack[d].tried)

\* C8: every call ends with a boolean answer; generation never exceeds N on
\* either side, at most N frames are in their candidate loop, and a frame
\* tests each g0 candidate index at most once.
C8_TerminatesBoundedDepth ==
    /\ []DepthBounded
    /\ [](Done => result \in {Some(TRUE), Some(FALSE)})
    /\ (pc = "start") ~> Done

\* A search on 4 nodes that committed and undone more pairs than there are
\* nodes, and ended with its answer.
C8_Witness ==
    /\ Done
    /\ NodeCount(g0) = 4
    /\ st # << >>
    /\ st[0].generation = 0
    /\ pushes > 4
    /\ calls > 4
    /\ result = Some(FALSE)

CompleteMapping(s, g) ==
    /\ s.generation = NodeCount(g)
    /\ \A i \in Nodes(g) : s.mapping[i] # End

IsPrefix(p, q) == Len(p) <= Len(q) /\ p = SubSeq(q, 1, Len(p))

\* C9: once a try_match found the mapping complete, the success only travels
\* up the frames: no push, no pop, no candidate trial, no further call; and a
\* true answer leaves both states with a complete mapping.
C9_SingleAnswerCut ==
    /\ []((Done /\ result = Some(TRUE)) =>
            \A j \in {0, 1} : CompleteMapping(st[j], G[j]))
    /\ [][(pc = "return" /\ ret = Some(TRUE)) =>
            /\ st' = st
            /\ pushes' = pushes
            /\ calls' = calls
            /\ ret' = ret
            /\ IsPrefix(stack', stack)
            /\ pc' \in {"return", "done"}
            /\ (pc' = "done" => result' = Some(TRUE))]_vars

\* Success being handed up, after some backtracking, through a frame that had
\* already undone a pair.
C9_Witness ==
    /\ pc = "return"
    /\ ret = Some(TRUE)
    /\ why = "propagated"
    /\ stack # << >>
    /\ Top.undone # << >>
    /\ pushes > NodeCount(g0)
    /\ \A j \in {0, 1} : CompleteMapping(st[j], G[j])

MutuallyInverse(s) ==
    \A a \in DOMAIN s[0].mapping, b \in DOMAIN s[1].mapping :
        s[0].mapping[a] = b <=> s[1].mapping[b] = a

Injective(m) ==
    \A a, b \in DOMAIN m : (a # b /\ m[a] # End) => m[a] # m[b]

\* C10: at every entry to try_match the two mappings are mutually inverse
\* and each is injective on its mapped nodes.
C10_MappingsInverse ==
    pc = "try_match" =>
        /\ MutuallyInverse(st)
        /\ Injective(st[0].mapping)
        /\ Injective(st[1].mapping)
        /\ \A j \in {0, 1} : \A a \in DOMAIN st[j].mapping :
             st[j].mapping[a] \in DOMAIN st[1 - j].mapping \cup {End}

\* An entry with two pairs committed, one of them between different indices.
C10_Witness ==
    /\ pc = "try_match"
    /\ st[0].generation >= 2
    /\ \E a \in DOMAIN st[0].mapping :
         st[0].mapping[a] # End /\ st[0].mapping[a] # a
    /\ MutuallyInverse(st)

\* The number of non-sentinel entries of a mapping.
MappedCount(s) == Cardinality({i \in DOMAIN s.mapping : s.mapping[i] # End})

\* C11: at every entry to try_match, generation on each side is the number of
\* non-sentinel mapping entries and the two generations are equal; so
\* st[0].is_complete() alone stands for both states being complete, and
\* is_complete() holds exactly when every node is assigned.
C11_GenerationCountsMapped ==
    pc = "try_match" =>
        /\ \A j \in {0, 1} : st[j].generation = MappedCount(st[j])
        /\ st[0].generation = st[1].generation
        /\ IsComplete(st[0]) <=> (IsComplete(st[0]) /\ IsComplete(st[1]))
        /\ \A j \in {0, 1} :
             IsComplete(st[j]) <=> \A i \in Nodes(G[j]) : st[j].mapping[i] # End

\* An entry that finds the mapping of 3 nodes complete after backtracking.
C11_Witness ==
    /\ pc = "try_match"
    /\ NodeCount(g0) = 3
    /\ IsComplete(st[0])
    /\ MappedCount(st[1]) = 3
    /\ pushes > 3

\* The node of side j that frame d committed (frame d commits at generation d).
FrameNode(d, j) == IF j = 0 THEN stack[d].nx ELSE stack[d].mx

MappedNodes(s) == {i \in DOMAIN s.mapping : s.mapping[i] # End}

\* The generations of the committed nodes of side j with an edge to i ...
OutSupport(j, i) == {d \in 1 .. Len(stack) : IsAdjacent(G[j], FrameNode(d, j), i)}

\* ... and of those with an edge from i.
InSupport(j, i) == {d \in 1 .. Len(stack) : IsAdjacent(G[j], i, FrameNode(d, j))}

ExpectedStamp(support) == IF support = {} THEN 0 ELSE Min(support)

LeastOf(S) == IF S = {} THEN None ELSE Some(Min(S))

\* C12: at every entry to try_match, on each side, out[i] is non-zero exactly
\* when some mapped node has an edge to i, and is then the generation of the
\* earliest-committed such node; the same for ins[i] and edges from i when
\* directed. next_out_index(0) reports the least unmapped successor of the
\* mapped nodes.
C12_FrontierAccuracy ==
    pc = "try_match" =>
        \A j \in {0, 1} :
            /\ MappedNodes(st[j]) = {FrameNode(d, j) : d \in 1 .. Len(stack)}
            /\ \A i \in Nodes(G[j]) :
                 /\ st[j].out[i] # 0 <=>
                       \E a \in MappedNodes(st[j]) : IsAdjacent(G[j], a, i)
                 /\ st[j].out[i] = ExpectedStamp(OutSupport(j, i))
                 /\ directed =>
                       /\ st[j].ins[i] # 0 <=>
                             \E a \in MappedNodes(st[j]) : IsAdjacent(G[j], i, a)
                       /\ st[j].ins[i] = ExpectedStamp(InSupport(j, i))
            /\ NextOutIndex(st[j], 0) =
                 LeastOf({i \in Nodes(G[j]) \ MappedNodes(st[j]) :
                            \E a \in MappedNodes(st[j]) : IsAdjacent(G[j], a, i)})

\* An entry where a node keeps the stamp of the earlier of two mapped
\* predecessors, after a pair has been undone.
C12_Witness ==
    /\ pc = "try_match"
    /\ pushes > Len(stack)
    /\ \E i \in Nodes(g0) :
         /\ Cardinality(OutSupport(0, i)) >= 2
         /\ st[0].out[i] = Min(OutSupport(0, i))
         /\ st[0].out[i] < st[0].generation

\* C13: as the field documentation says, out[i] is non-zero for every node i
\* of the current mapping (and ins[i] too when the graph is directed).
C13_MappedNodesMarked ==
    st # << >> =>
        \A j \in {0, 1} : \A i \in MappedNodes(st[j]) :
            /\ st[j].out[i] # 0
            /\ directed => st[j].ins[i] # 0

\* The node indices >= from_index that a scan of the given list accepts:
\* unmapped and, for the out / in list, with a non-zero marker (an undirected
\* state holds no in markers at all).
Qualifying(s, list, from_index) ==
    {i \in DOMAIN s.mapping :
        /\ i >= from_index
        /\ s.mapping[i] = End
        /\ list = "Out" => s.out[i] # 0
        /\ list = "In" => (directed /\ s.ins[i] # 0)}

Scan(s, list, from_index) ==
    CASE list = "Out"   -> NextOutIndex(s, from_index)
      [] list = "In"    -> NextInIndex(s, from_index)
      [] list = "Other" -> NextRestIndex(s, from_index)

FromIndices(s) == 0 .. Cardinality(DOMAIN s.mapping)

\* C14 as stated: each scan from from_index produces the smallest qualifying
\* node index >= from_index, or none.
C14_ScanGivesIndex ==
    st # << >> =>
        \A j \in {0, 1} : \A list \in {"Out", "In", "Other"} :
            \A from_index \in FromIndices(st[j]) :
                Scan(st[j], list, from_index) = LeastOf(Qualifying(st[j], list, from_index))

\* C14 amended: each scan from from_index produces the offset k of the
\* smallest qualifying node index from_index + k, or none.
C14_ScanGivesOffset ==
    st # << >> =>
        \A j \in {0, 1} : \A list \in {"Out", "In", "Other"} :
            \A from_index \in FromIndices(st[j]) :
                LET q == Qualifying(st[j], list, from_index) IN
                Scan(st[j], list, from_index) =
                    IF q = {} THEN None ELSE Some(Min(q) - from_index)

Last(q) == q[Len(q)]

\* A frame whose current candidate came from a scan started past index 0,
\* which skipped at least one index before its hit.
C14_Witness ==
    /\ pc = "feasibility"
    /\ Top.tried # << >>
    /\ LET start == Last(Top.tried) + 1 IN
         /\ Top.nx > start
         /\ Scan(st[0], Top.open_list, start) = Some(Top.nx - start)
         /\ Top.nx = Min(Qualifying(st[0], Top.open_list, start))

NonEmptyOnBoth(s, list) ==
    /\ Qualifying(s[0], list, 0) # {}
    /\ Qualifying(s[1], list, 0) # {}

\* The list the priority order calls for in the states s.
ExpectedList(s) ==
    IF NonEmptyOnBoth(s, "Out") THEN "Out"
    ELSE IF directed /\ NonEmptyOnBoth(s, "In") THEN "In"
    ELSE "Other"

\* C15: every frame uses the out list if it is non-empty on both sides, else
\* the in list if the graphs are directed and it is non-empty on both sides,
\* else the list of all unmapped nodes; its g1 anchor and every g0 candidate
\* it tests come from that list, and an undirected search never uses the in
\* list. (saved holds the states the frame was entered with.)
C15_ListPriority ==
    \A d \in 1 .. Len(stack) :
        LET f == stack[d] IN
        /\ f.open_list = ExpectedList(f.saved)
        /\ f.mx \in Qualifying(f.saved[1], f.open_list, 0)
        /\ f.nx \in Qualifying(f.saved[0], f.open_list, 0)
        /\ \A k \in 1 .. Len(f.tried) :
             f.tried[k] \in Qualifying(f.saved[0], f.open_list, 0)
        /\ ~directed => f.open_list # "In"

\* A frame on the in list because the out list had a candidate in g1 only,
\* with its g0 candidate of the in list under test.
C15_Witness ==
    /\ pc = "feasibility"
    /\ Top.open_list = "In"
    /\ Qualifying(Top.saved[1], "Out", 0) # {}
    /\ Qualifying(Top.saved[0], "Out", 0) = {}
    /\ Top.nx \in Qualifying(st[0], "In", 0)
    /\ Top.mx = Min(Qualifying(st[1], "In", 0))
    /\ st = Top.saved

SetOf(q) == {q[k] : k \in 1 .. Len(q)}

\* The g0 candidates of frame d: the qualifying indices of its list in the
\* states it was entered with.
FrameCandidates(d) == Qualifying(stack[d].saved[0], stack[d].open_list, 0)

\* Frame d has not yet tested its current nx.
Untested(d) == d = Len(stack) /\ (pc = "feasibility" \/ stack[d].first)

\* The anchor is the least index of the list in g1; the candidates tested so
\* far are, in ascending order, all those below nx, and nx once tested.
C16_FrameOrder(d) ==
    LET f == stack[d] IN
    /\ f.mx = Min(Qualifying(f.saved[1], f.open_list, 0))
    /\ StrictlyAscending(f.tried)
    /\ f.nx \in FrameCandidates(d)
    /\ SetOf(f.tried) =
         {i \in FrameCandidates(d) : i < f.nx \/ (i = f.nx /\ ~Untested(d))}

\* C16: within a frame the g1 anchor is the least index of the chosen list
\* and never changes, and the g0 candidates are tested in strictly ascending
\* order, none skipped and none repeated; the frame gives up only when every
\* index of its list has been tested.
C16_AscendingComplete ==
    /\ [](\A d \in 1 .. Len(stack) : C16_FrameOrder(d))
    /\ [][\A d \in 1 .. Len(stack) :
            d <= Len(stack') =>
                /\ stack'[d].mx = stack[d].mx
                /\ stack'[d].open_list = stack[d].open_list]_vars
    /\ [][(pc = "loop" /\ pc' = "return") =>
            SetOf(Top.tried) = FrameCandidates(Len(stack))]_vars

\* A frame below the root that has tested every candidate of its list, in
\* order, and is about to give up.
C16_Witness ==
    /\ pc = "loop"
    /\ Len(stack) >= 2
    /\ Len(Top.tried) >= 2
    /\ SetOf(Top.tried) = FrameCandidates(Len(stack))
    /\ StrictlyAscending(Top.tried)
    /\ NextCandidate(st, Top.open_list, Top.nx + 1) = None

\* The condition C17 puts on a pair (n, m): equal neighbour counts, and every
\* mapped neighbour of n (of m) matched by the same edge at m (at n).
PairAdmissible(n, m) ==
    /\ OutDegree(g0, n) = OutDegree(g1, m)
    /\ \A a \in Neighbors(g0, n) \cap MappedNodes(st[0]) :
         IsAdjacent(g1, m, st[0].mapping[a])
    /\ \A b \in Neighbors(g1, m) \cap MappedNodes(st[1]) :
         IsAdjacent(g0, n, st[1].mapping[b])
    /\ directed =>
         /\ InDegree(g0, n) = InDegree(g1, m)
         /\ \A a \in NeighborsIncoming(g0, n) \cap MappedNodes(st[0]) :
              IsAdjacent(g1, st[0].mapping[a], m)
         /\ \A b \in NeighborsIncoming(g1, m) \cap MappedNodes(st[1]) :
              IsAdjacent(g0, st[1].mapping[b], n)

\* C17: a pair is committed (pushed on both states and recursed on) only if it
\* has equal neighbour counts and every mapped neighbour is matched; a
\* mismatch goes back to the loop head with no push and no call; and every
\* pair that passes is pushed and recursed on.
C17_CommitIffFeasible ==
    /\ [](pc = "commit" => PairAdmissible(Top.nx, Top.mx))
    /\ [][pc = "feasibility" =>
            IF PairAdmissible(Top.nx, Top.mx)
            THEN pc' = "commit"
            ELSE pc' = "loop" /\ st' = st /\ pushes' = pushes /\ calls' = calls]_vars
    /\ [][pc = "commit" =>
            /\ pc' = "try_match"
            /\ pushes' = pushes + 1
            /\ st'[0].mapping[Top.nx] = Top.mx
            /\ st'[1].mapping[Top.mx] = Top.nx]_vars
    /\ [][pushes' > pushes => pc = "commit"]_vars

\* A candidate with the right neighbour counts turned down for a mapped
\* neighbour without its edge: back at the loop head, never committed.
C17_Witness ==
    /\ pc = "loop"
    /\ Top.tried # << >>
    /\ Last(Top.tried) = Top.nx
    /\ Top.nx \notin SetOf(Top.undone)
    /\ OutDegree(g0, Top.nx) = OutDegree(g1, Top.mx)
    /\ InDegree(g0, Top.nx) = InDegree(g1, Top.mx)
    /\ ~PairAdmissible(Top.nx, Top.mx)
    /\ st[0].mapping[Top.nx] = End

\* While no success is being handed up, the pairs pushed and not yet popped
\* are those of the frames, frame d's at generation d, the innermost last.
FramesHoldPushes ==
    /\ \A j \in {0, 1} : st[j].generation = Len(stack)
    /\ \A d \in 1 .. Len(stack) :
         /\ st[0].mapping[stack[d].nx] = stack[d].mx
         /\ st[1].mapping[stack[d].mx] = stack[d].nx

\* `from` is the node pushed at the current generation of state j: it is
\* mapped, and every marker stamped with that generation is on a neighbour
\* of it.
PoppedNodeIsLastPushed(j) ==
    LET from == FrameNode(Len(stack), j)
        s    == st[j].generation
    IN  /\ s >= 1
        /\ st[j].mapping[from] # End
        /\ \A i \in Nodes(G[j]) :
             /\ st[j].out[i] = s => i \in Neighbors(G[j], from)
             /\ (directed /\ st[j].ins[i] = s) => i \in NeighborsIncoming(G[j], from)

\* C18: every pop_mapping(from) is made when `from` is the node pushed at the
\* state's current generation: pushes and pops of a state form a stack, and
\* the two states are pushed and popped together for the same pair.
C18_PopsAreLifo ==
    /\ []((pc \in {"try_match", "restore"} \/ (pc = "return" /\ ret = None))
            => FramesHoldPushes)
    /\ [](pc = "restore" => \A j \in {0, 1} : PoppedNodeIsLastPushed(j))
    /\ [][pc = "commit" =>
            \A j \in {0, 1} :
                /\ st'[j].generation = Len(stack)
                /\ st'[j].mapping[FrameNode(Len(stack), j)] = FrameNode(Len(stack), 1 - j)]_vars
    /\ [][pc = "restore" =>
            \A j \in {0, 1} :
                /\ st'[j].generation = st[j].generation - 1
                /\ st'[j].mapping =
                     [st[j].mapping EXCEPT ![FrameNode(Len(stack), j)] = End]]_vars
    /\ [][(st # << >> /\ st' # << >>) =>
            st'[0].generation - st[0].generation
              = st'[1].generation - st[1].generation]_vars

\* About to pop, two frames deep, a pair whose push had stamped a marker on
\* each side, after an earlier pop in the same frame.
C18_Witness ==
    /\ pc = "restore"
    /\ Len(stack) >= 2
    /\ Top.undone # << >>
    /\ \A j \in {0, 1} :
         /\ PoppedNodeIsLastPushed(j)
         /\ \E i \in Nodes(G[j]) : st[j].out[i] = st[j].generation

\* C19: in every search state the partial mapping is a partial isomorphism on
\* distinct mapped nodes: for mapped a # b of g0, a->b is an edge of g0 exactly
\* when mapping[a]->mapping[b] is an edge of g1.
C19_PartialIsomorphism ==
    st # << >> =>
        \A a, b \in MappedNodes(st[0]) :
            a # b =>
                (IsAdjacent(g0, a, b)
                   <=> IsAdjacent(g1, st[0].mapping[a], st[0].mapping[b]))

\* Two directed nodes mapped, not by the identity, with an edge one way and
\* none the other way between them, and a self-loop that the mapping does not
\* preserve.
C19_Witness ==
    /\ directed
    /\ st # << >>
    /\ MappedCount(st[0]) = 2
    /\ \E a, b \in MappedNodes(st[0]) :
         a # b /\ IsAdjacent(g0, a, b) /\ ~IsAdjacent(g0, b, a)
    /\ \E a \in MappedNodes(st[0]) : st[0].mapping[a] # a
    /\ \E a \in MappedNodes(st[0]) :
         IsAdjacent(g0, a, a) /\ ~IsAdjacent(g1, st[0].mapping[a], st[0].mapping[a])

\* C20: the "no more candidates" exit of the selection is never taken: an
\* entry with an incomplete mapping always finds a list with a candidate on
\* both sides (the list of all unmapped nodes at the latest), so a try_match
\* returns None only by exhausting the g0 candidates of its frame.
C20_SelectionNeverFails ==
    /\ why # "no_candidates"
    /\ (pc = "return" /\ ret = None) => why = "exhausted"
    /\ (pc = "try_match" /\ ~IsComplete(st[0])) =>
         /\ NonEmptyOnBoth(st, "Other")
         /\ Qualifying(st[0], ExpectedList(st), 0) # {}
         /\ Qualifying(st[1], ExpectedList(st), 0) # {}

\* A frame below the root that fell back to the list of all unmapped nodes
\* because the out list had a candidate in g1 only.
C20_Witness ==
    /\ pc = "loop"
    /\ Len(stack) >= 2
    /\ Top.first
    /\ Top.open_list = "Other"
    /\ Qualifying(st[1], "Out", 0) # {}
    /\ Qualifying(st[0], "Out", 0) = {}
    /\ why = "exhausted"

====
